---- MODULE Spec2Model ----
(***************************************************************************)
(* The AVR relocation backend of the linker (ELF/Arch/AVR.cpp):            *)
(* AVR::getRelExpr classifies a relocation type, AVR::relocateOne patches  *)
(* the resolved value into the 16-bit little-endian instruction word(s)    *)
(* at Loc and Loc + 2.                                                     *)
(*                                                                         *)
(* Number representation.  A C++ value of type int, int16_t or uint16_t is *)
(* the TLA+ integer with the same mathematical value.  The uint64_t Val    *)
(* argument is written as the signed integer that has the same             *)
(* two's-complement bits (-1 stands for 0xFFFFFFFFFFFFFFFF), so that       *)
(* Val % 2^k is the low k bits of the argument for both signs.             *)
(***************************************************************************)
EXTENDS Integers, Sequences, FiniteSets, TLC

VARIABLES
    Buf,         \* the four output bytes at Loc, Loc+1, Loc+2, Loc+3
    old,         \* Buf as it was before the last call
    call,        \* the last call: operation, arguments, result, diagnostic
    ErrorCount,  \* number of diagnostics emitted through error()
    ncalls       \* number of calls made so far

vars == <<Buf, old, call, ErrorCount, ncalls>>

----------------------------------------------------------------------------
(* Relocation type codes, as named in the switch statements.  The codes    *)
(* 0, 1 (R_AVR_NONE, R_AVR_32) and 30, 31, 32 (R_AVR_DIFF8/16/32) are      *)
(* named by neither switch, and no code above 35 names a relocation.       *)

R_AVR_7_PCREL        == 2
R_AVR_13_PCREL       == 3
R_AVR_16             == 4
R_AVR_16_PM          == 5
R_AVR_LO8_LDI        == 6
R_AVR_HI8_LDI        == 7
R_AVR_HH8_LDI        == 8
R_AVR_LO8_LDI_NEG    == 9
R_AVR_HI8_LDI_NEG    == 10
R_AVR_HH8_LDI_NEG    == 11
R_AVR_LO8_LDI_PM     == 12
R_AVR_HI8_LDI_PM     == 13
R_AVR_HH8_LDI_PM     == 14
R_AVR_LO8_LDI_PM_NEG == 15
R_AVR_HI8_LDI_PM_NEG == 16
R_AVR_HH8_LDI_PM_NEG == 17
R_AVR_CALL           == 18
R_AVR_LDI            == 19
R_AVR_6              == 20
R_AVR_6_ADIW         == 21
R_AVR_MS8_LDI        == 22
R_AVR_MS8_LDI_NEG    == 23
R_AVR_LO8_LDI_GS     == 24
R_AVR_HI8_LDI_GS     == 25
R_AVR_8              == 26
R_AVR_8_LO8          == 27
R_AVR_8_HI8          == 28
R_AVR_8_HLO8         == 29
R_AVR_LDS_STS_16     == 33
R_AVR_PORT6          == 34
R_AVR_PORT5          == 35

----------------------------------------------------------------------------
(* Machine arithmetic.                                                     *)

\* a & b for an int a of either sign and a non-negative mask b.
RECURSIVE And(_, _)
And(a, b) ==
    IF b = 0 THEN 0
    ELSE (a % 2) * (b % 2) + 2 * And(a \div 2, b \div 2)

\* a | b for non-negative a and b.
RECURSIVE Or(_, _)
Or(a, b) ==
    IF a = 0 THEN b
    ELSE IF b = 0 THEN a
    ELSE (IF a % 2 = 1 \/ b % 2 = 1 THEN 1 ELSE 0) + 2 * Or(a \div 2, b \div 2)

\* a >> n on a signed int: arithmetic shift.
Shr(a, n) == a \div (2 ^ n)

\* a << n on an int; no operand of the source reaches bit 31.  For a
\* negative a this is the two's-complement shift that the compilers emit.
Shl(a, n) == a * (2 ^ n)

\* Conversion of an integer to uint16_t.
ToUint16(v) == v % 65536

\* Conversion of an integer to int16_t (modular, as every supported
\* compiler converts).
ToInt16(v) ==
    LET u == v % 65536
    IN  IF u >= 32768 THEN u - 65536 ELSE u

\* llvm::support::endian::read16le at byte offset off of the buffer.
read16le(Loc, off) == Loc[off + 1] + 256 * Loc[off + 2]

\* llvm::support::endian::write16le(Loc + off, V); V converts to uint16_t.
write16le(Loc, off, V) ==
    LET U == ToUint16(V)
    IN  [Loc EXCEPT ![off + 1] = U % 256, ![off + 2] = U \div 256]

----------------------------------------------------------------------------
(* The helpers of the anonymous namespace.                                 *)

calculateForLDI_noclear(X, Val) ==
    ToUint16(Or(Or(X, And(Val, 15)), And(Shl(Val, 4), 3840)))

calculateForLDI_byte(X, Val) == Or(And(X, 65280), And(Val, 255))

\* uint16_t calculateForLDI(uint16_t X, int16_t Val)
\*   (X & 0xf0f0) | (Val & 0xf) | ((Val << 4) & 0xf00)
calculateForLDI(X, Val) ==
    ToUint16(Or(Or(And(X, 61680), And(Val, 15)), And(Shl(Val, 4), 3840)))

adjustRelativeBranch_none(Val) == Val

\* void adjustRelativeBranch(int16_t &Val): Val -= 2
adjustRelativeBranch(Val) == ToInt16(Val - 2)

adjustPM_none(Val) == Val

\* void adjustPM(int16_t &Val): Val >>= 1
adjustPM(Val) == ToInt16(Shr(Val, 1))

adjustNeg_none(Val) == Val

\* void adjustNeg(int16_t &Val): Val *= -1
adjustNeg(Val) == ToInt16(Val * (-1))

----------------------------------------------------------------------------
(* AVR::getRelExpr.                                                        *)

\* The case labels that return R_PC.
PCRelTypes == {R_AVR_7_PCREL, R_AVR_13_PCREL}

AbsTypes_missing ==
    { R_AVR_LO8_LDI, R_AVR_LDI, R_AVR_6, R_AVR_6_ADIW,
      R_AVR_HI8_LDI, R_AVR_HH8_LDI, R_AVR_MS8_LDI,
      R_AVR_LO8_LDI_NEG, R_AVR_HI8_LDI_NEG, R_AVR_HH8_LDI_NEG,
      R_AVR_MS8_LDI_NEG,
      R_AVR_LO8_LDI_GS, R_AVR_LO8_LDI_PM, R_AVR_HI8_LDI_GS,
      R_AVR_HI8_LDI_PM, R_AVR_HH8_LDI_PM,
      R_AVR_LO8_LDI_PM_NEG, R_AVR_HI8_LDI_PM_NEG, R_AVR_HH8_LDI_PM_NEG,
      R_AVR_8, R_AVR_8_LO8, R_AVR_8_HI8, R_AVR_8_HLO8,
      R_AVR_CALL, R_AVR_16, R_AVR_16_PM,
      R_AVR_LDS_STS_16, R_AVR_PORT6 }

\* The case labels that return R_ABS.
AbsTypes ==
    { R_AVR_LO8_LDI, R_AVR_LDI, R_AVR_6, R_AVR_6_ADIW,
      R_AVR_HI8_LDI, R_AVR_HH8_LDI, R_AVR_MS8_LDI,
      R_AVR_LO8_LDI_NEG, R_AVR_HI8_LDI_NEG, R_AVR_HH8_LDI_NEG,
      R_AVR_MS8_LDI_NEG,
      R_AVR_LO8_LDI_GS, R_AVR_LO8_LDI_PM, R_AVR_HI8_LDI_GS,
      R_AVR_HI8_LDI_PM, R_AVR_HH8_LDI_PM,
      R_AVR_LO8_LDI_PM_NEG, R_AVR_HI8_LDI_PM_NEG, R_AVR_HH8_LDI_PM_NEG,
      R_AVR_8, R_AVR_8_LO8, R_AVR_8_HI8, R_AVR_8_HLO8,
      R_AVR_CALL, R_AVR_16, R_AVR_16_PM,
      R_AVR_LDS_STS_16, R_AVR_PORT6, R_AVR_PORT5 }

\* RelExpr AVR::getRelExpr(Type, S, File, Loc): the returned expression
\* class and whether error() was called.
getRelExpr(Type) ==
    IF Type \in PCRelTypes THEN [expr |-> "R_PC", err |-> FALSE]
    ELSE IF Type \in AbsTypes THEN [expr |-> "R_ABS", err |-> FALSE]
    ELSE [expr |-> "R_HINT", err |-> TRUE]

----------------------------------------------------------------------------
(* AVR::relocateOne.                                                       *)

\* A case that ends in break: the patched buffer, no diagnostic.
Patched(Loc) == [Loc |-> Loc, err |-> FALSE]

Unrecognized_clobber(Loc) == [Loc |-> write16le(Loc, 0, 0), err |-> TRUE]

\* The default case: error("unrecognized reloc"), nothing is written.
Unrecognized(Loc) == [Loc |-> Loc, err |-> TRUE]

\* void AVR::relocateOne(uint8_t *Loc, uint32_t Type, uint64_t Val): the
\* buffer after the call and whether error() was called.
relocateOne(Loc, Type, Val) ==
    LET SRel == ToInt16(Val)
        X    == read16le(Loc, 0)
        Neg  == adjustNeg(SRel)
        PM   == adjustPM(SRel)
        NPM  == adjustPM(adjustNeg(SRel))
        LDI(V) == Patched(write16le(Loc, 0, calculateForLDI(X, V)))
    IN
    CASE Type = R_AVR_7_PCREL ->
           LET S == adjustRelativeBranch(SRel)
           IN  Patched(write16le(Loc, 0,
                   Or(And(X, 64519), And(Shl(Shr(S, 1), 3), 1016))))
      [] Type = R_AVR_13_PCREL ->
           LET S == adjustPM(adjustRelativeBranch(SRel))
           IN  Patched(write16le(Loc, 0, Or(And(X, 61440), And(S, 4095))))
      [] Type \in {R_AVR_LO8_LDI, R_AVR_LDI} -> LDI(SRel)
      [] Type = R_AVR_6 ->
           Patched(write16le(Loc, 0,
               Or(And(X, 54264),
                  Or(Or(And(SRel, 7), Shl(And(SRel, Shl(3, 3)), 7)),
                     Shl(And(SRel, Shl(1, 5)), 8)))))
      [] Type = R_AVR_6_ADIW ->
           Patched(write16le(Loc, 0,
               Or(Or(And(X, 65328), And(SRel, 15)), Shl(And(SRel, 48), 2))))
      [] Type = R_AVR_HI8_LDI -> LDI(ToInt16(And(Shr(SRel, 8), 255)))
      [] Type = R_AVR_HH8_LDI -> LDI(ToInt16(And(Shr(SRel, 16), 255)))
      [] Type = R_AVR_MS8_LDI -> LDI(ToInt16(And(Shr(SRel, 24), 255)))
      [] Type = R_AVR_LO8_LDI_NEG -> LDI(Neg)
      [] Type = R_AVR_HI8_LDI_NEG -> LDI(ToInt16(And(Shr(Neg, 8), 255)))
      [] Type = R_AVR_HH8_LDI_NEG -> LDI(ToInt16(And(Shr(Neg, 16), 255)))
      [] Type = R_AVR_MS8_LDI_NEG -> LDI(ToInt16(And(Shr(Neg, 24), 255)))
      [] Type \in {R_AVR_LO8_LDI_GS, R_AVR_LO8_LDI_PM} -> LDI(PM)
      [] Type \in {R_AVR_HI8_LDI_GS, R_AVR_HI8_LDI_PM} ->
           LDI(ToInt16(And(Shr(PM, 8), 255)))
      [] Type = R_AVR_HH8_LDI_PM -> LDI(ToInt16(And(Shr(PM, 16), 255)))
      [] Type = R_AVR_LO8_LDI_PM_NEG -> LDI(NPM)
      [] Type = R_AVR_HI8_LDI_PM_NEG -> LDI(ToInt16(And(Shr(NPM, 8), 255)))
      [] Type = R_AVR_HH8_LDI_PM_NEG -> LDI(ToInt16(And(Shr(NPM, 16), 255)))
      [] Type = R_AVR_8 -> Patched(write16le(Loc, 0, And(SRel, 255)))
      [] Type = R_AVR_8_LO8 ->
           Patched(write16le(Loc, 0, And(SRel, 16777215)))
      [] Type = R_AVR_8_HI8 ->
           Patched(write16le(Loc, 0, And(Shr(SRel, 8), 16777215)))
      [] Type = R_AVR_8_HLO8 ->
           Patched(write16le(Loc, 0, And(Shr(SRel, 16), 16777215)))
      [] Type = R_AVR_CALL ->
           LET X1 == ToUint16(Or(X,
                       Shr(Or(And(PM, 65536), And(Shl(PM, 3), 32505856)), 16)))
           IN  Patched(write16le(write16le(Loc, 0, X1), 2, And(PM, 65535)))
      [] Type = R_AVR_16 -> Patched(write16le(Loc, 0, And(SRel, 65535)))
      [] Type = R_AVR_16_PM -> Patched(write16le(Loc, 0, And(PM, 65535)))
      [] Type = R_AVR_LDS_STS_16 ->
           LET S == ToInt16(And(SRel, 127))
           IN  Patched(write16le(Loc, 0,
                   ToUint16(Or(X, Or(Or(And(S, 15), Shl(And(S, 48), 5)),
                                     Shl(And(S, 64), 2))))))
      [] Type = R_AVR_PORT6 ->
           Patched(write16le(Loc, 0,
               Or(Or(And(X, 63984), Shl(And(SRel, 48), 5)), And(SRel, 15))))
      [] Type = R_AVR_PORT5 ->
           Patched(write16le(Loc, 0,
               Or(And(X, 65287), Shl(And(SRel, 31), 3))))
      [] OTHER -> Unrecognized(Loc)

----------------------------------------------------------------------------
(* Bounds and input sets.                                                  *)

\* Type codes 0 .. MaxType are passed; those above R_AVR_PORT5 name nothing.
MaxType == 37

\* Number of calls in one run of the call-sequence specification.
MaxCalls == 2

\* Small resolved values are drawn from -MaxDelta .. MaxDelta.
MaxDelta == 24

Types == 0 .. MaxType

\* The four bytes of the words W0 (at Loc) and W1 (at Loc + 2).
Bytes(W0, W1) == <<W0 % 256, W0 \div 256, W1 % 256, W1 \div 256>>

\* Resolved values of the call-sequence specification:
\* 0x3F7A and -32767 (low word 0x8001).
SeqVals == {16250, -32767}

\* The buffer the call-sequence specification starts from: 0xE0A0, 0x1234.
SeqBufs == {Bytes(57504, 4660)}

\* Resolved values of the single-call specification: small deltas, byte and
\* word boundaries, values with bits above bit 15, negative values.
ApplyVals ==
    (-MaxDelta .. MaxDelta)
    \cup { 127, 128, 255, 256, 16250, 4660, 32767, 32768, 32769, 43981,
           65534, 65535, 65536, 65537, 98304, 131072, 131074, 175053,
           1193046, 4194302, 8388607, 16777215, 16777216, 305419896,
           2147418112, -127, -128, -129, -256, -4096, -32767, -32768,
           -32769, -65536, -131072, -2147418112 }

\* First words of the single-call specification.
ApplyWords ==
    { 0, 65535, 57504, 37889, 37902, 36879, 61680, 3855, 43690, 21845,
      32768, 1, 1807, 497, 11271, 248 }

\* Second words of the single-call specification.
ApplySecondWords == {0, 65535, 4660}

----------------------------------------------------------------------------
(* The host calling the backend.                                           *)

NoCall == [op |-> "none", Type |-> 0, Val |-> 0, expr |-> "none", err |-> FALSE]

Start(bufs) ==
    /\ Buf \in bufs
    /\ old = Buf
    /\ call = NoCall
    /\ ErrorCount = 0
    /\ ncalls = 0

\* error(): one more diagnostic when the call reported.
Report(err) == ErrorCount' = ErrorCount + (IF err THEN 1 ELSE 0)

\* The host calls Target->getRelExpr(Type, ...); the buffer is only read.
CallGetRelExpr(Type) ==
    LET r == getRelExpr(Type)
    IN  /\ call' = [op |-> "getRelExpr", Type |-> Type, Val |-> 0,
                    expr |-> r.expr, err |-> r.err]
        /\ Report(r.err)
        /\ old' = Buf
        /\ Buf' = Buf
        /\ ncalls' = ncalls + 1

\* The host calls Target->relocateOne(Loc, Type, Val).
CallRelocateOne(Type, Val) ==
    LET r == relocateOne(Buf, Type, Val)
    IN  /\ call' = [op |-> "relocateOne", Type |-> Type, Val |-> Val,
                    expr |-> "void", err |-> r.err]
        /\ Report(r.err)
        /\ old' = Buf
        /\ Buf' = r.Loc
        /\ ncalls' = ncalls + 1

\* Any sequence of MaxCalls calls on one location.
Init == Start(SeqBufs)

Classify == ncalls < MaxCalls /\ \E Type \in Types : CallGetRelExpr(Type)

Apply ==
    ncalls < MaxCalls /\ \E Type \in Types, Val \in SeqVals :
        CallRelocateOne(Type, Val)

Next == Classify \/ Apply

Spec == Init /\ [][Next]_vars

\* One relocateOne call on a fresh location, over the wide input sets.
InitApply ==
    Start({Bytes(W0, W1) : W0 \in ApplyWords, W1 \in ApplySecondWords})

ApplyOnce ==
    ncalls = 0 /\ \E Type \in Types, Val \in ApplyVals :
        CallRelocateOne(Type, Val)

NextApply == ApplyOnce

SpecApply == InitApply /\ [][NextApply]_vars

----------------------------------------------------------------------------
(* Vocabulary of the properties.                                           *)

\* The last call was relocateOne with relocation type T.
Applied(T) == call.op = "relocateOne" /\ call.Type = T

\* The resolved value of the last call, the word at Loc before it (W), the
\* word at Loc after it (X) and the word at Loc + 2 after it.
V  == call.Val
W  == old[1] + 256 * old[2]
X  == Buf[1] + 256 * Buf[2]
X2 == Buf[3] + 256 * Buf[4]

\* Bits lo .. lo+n-1 of x, as a number; x of either sign, two's complement.
Field(x, lo, n) == (x \div (2 ^ lo)) % (2 ^ n)

Bit(x, i) == Field(x, i, 1)

\* The relocation types that name an encoding: R_AVR_7_PCREL .. R_AVR_8_HLO8
\* and R_AVR_LDS_STS_16 .. R_AVR_PORT5.
KnownTypes ==
    (R_AVR_7_PCREL .. R_AVR_8_HLO8) \cup (R_AVR_LDS_STS_16 .. R_AVR_PORT5)

----------------------------------------------------------------------------
(* C1: table completeness.  A relocation type is classified R_ABS or R_PC *)
(* without a diagnostic exactly when relocateOne has an encoding for it:   *)
(* relocateOne never reports a type getRelExpr accepts, and getRelExpr     *)
(* never rejects a type relocateOne encodes.                               *)
C1_TableComplete ==
    /\ call.op = "relocateOne" =>
         (~call.err <=> /\ getRelExpr(call.Type).expr \in {"R_ABS", "R_PC"}
                        /\ ~getRelExpr(call.Type).err)
    /\ call.op = "getRelExpr" =>
         \A Val \in SeqVals :
           ((call.expr \in {"R_ABS", "R_PC"} /\ ~call.err)
              <=> ~relocateOne(Buf, call.Type, Val).err)

\* relocateOne has encoded R_AVR_PORT5 as the second call of a run without
\* diagnostics.
C1_Witness ==
    /\ Applied(R_AVR_PORT5) /\ ~call.err /\ X # W
    /\ ncalls = 2 /\ ErrorCount = 0

(* C2: unknown-kind behaviour.  In every call, a type outside the table    *)
(* emits exactly one diagnostic, getRelExpr then returns R_HINT and        *)
(* relocateOne leaves all four bytes as they were; a type in the table     *)
(* emits none; and a recognised relocateOne that follows a failing call    *)
(* gives the buffer it would have given without the failing call.          *)
C2_Step ==
    /\ call'.Type \notin KnownTypes =>
         /\ call'.err
         /\ ErrorCount' = ErrorCount + 1
         /\ Buf' = Buf
         /\ call'.op = "getRelExpr" => call'.expr = "R_HINT"
    /\ call'.Type \in KnownTypes =>
         /\ ~call'.err
         /\ ErrorCount' = ErrorCount
    /\ (call.err /\ call'.op = "relocateOne" /\ call'.Type \in KnownTypes) =>
         Buf' = relocateOne(old, call'.Type, call'.Val).Loc

C2_UnknownKind == [][C2_Step]_vars

\* A recognised relocateOne has patched the word after a failing call.
C2_Witness ==
    /\ ncalls = 2 /\ ErrorCount = 1
    /\ call.op = "relocateOne" /\ ~call.err /\ X # W

(* C3: load-immediate nibble law.  R_AVR_LO8_LDI and R_AVR_LDI write       *)
(* (W & 0xf0f0) | (V & 0xF) | (((V >> 4) & 0xF) << 8).                     *)
C3_LdiNibbleLaw ==
    (Applied(R_AVR_LO8_LDI) \/ Applied(R_AVR_LDI)) =>
        X = Field(W, 12, 4) * 4096 + Field(V, 4, 4) * 256
            + Field(W, 4, 4) * 16 + Field(V, 0, 4)

\* R_AVR_LDI applied to 0xFFFF with value 0x1234: both nibbles cleared first.
C3_Witness == Applied(R_AVR_LDI) /\ W = 65535 /\ V = 4660 /\ X = 62452

(* C4: negation law.  relocateOne with a negated load-immediate type and   *)
(* value V leaves the buffer relocateOne leaves with the plain type and    *)
(* value -V.                                                               *)
PlainOf(T) ==
    CASE T = R_AVR_LO8_LDI_NEG    -> R_AVR_LO8_LDI
      [] T = R_AVR_HI8_LDI_NEG    -> R_AVR_HI8_LDI
      [] T = R_AVR_HH8_LDI_NEG    -> R_AVR_HH8_LDI
      [] T = R_AVR_MS8_LDI_NEG    -> R_AVR_MS8_LDI
      [] T = R_AVR_LO8_LDI_PM_NEG -> R_AVR_LO8_LDI_PM
      [] T = R_AVR_HI8_LDI_PM_NEG -> R_AVR_HI8_LDI_PM
      [] T = R_AVR_HH8_LDI_PM_NEG -> R_AVR_HH8_LDI_PM

NegTypes ==
    { R_AVR_LO8_LDI_NEG, R_AVR_HI8_LDI_NEG, R_AVR_HH8_LDI_NEG,
      R_AVR_MS8_LDI_NEG, R_AVR_LO8_LDI_PM_NEG, R_AVR_HI8_LDI_PM_NEG,
      R_AVR_HH8_LDI_PM_NEG }

C4_NegationLaw ==
    (call.op = "relocateOne" /\ call.Type \in NegTypes) =>
        Buf = relocateOne(old, PlainOf(call.Type), 0 - V).Loc

\* R_AVR_HI8_LDI_NEG with a value whose low 16 bits are 0x8000 (-32768).
C4_Witness == Applied(R_AVR_HI8_LDI_NEG) /\ V = 98304 /\ W = 57504 /\ X = 59552

(* C5: long call.  For R_AVR_CALL and a byte address V whose word address  *)
(* A = V >> 1 has a bit set at position 16 .. 21, the word at Loc + 2 is   *)
(* A & 0xFFFF and the word at Loc carries bit 16 of A in bit 0 and bits    *)
(* 17-21 of A in bits 4-8, its other bits as before.                       *)
C5_LongCall ==
    LET A == V \div 2
    IN  (Applied(R_AVR_CALL) /\ A >= 65536 /\ A < 4194304) =>
          /\ X2 = A % 65536
          /\ Bit(X, 0) = Bit(A, 16)
          /\ Field(X, 4, 5) = Field(A, 17, 5)
          /\ Field(X, 1, 3) = Field(W, 1, 3)
          /\ Field(X, 9, 7) = Field(W, 9, 7)

(* C6: pure-data law.  The word read back at Loc is the selected lane of V *)
(* whatever W was: V & 0xFF for R_AVR_8 and R_AVR_8_LO8, (V >> 8) & 0xFF   *)
(* for R_AVR_8_HI8, (V >> 16) & 0xFF for R_AVR_8_HLO8, V & 0xFFFF for      *)
(* R_AVR_16 and (V >> 1) & 0xFFFF for R_AVR_16_PM.                         *)
C6_PureData ==
    /\ Applied(R_AVR_8)      => X = Field(V, 0, 8)
    /\ Applied(R_AVR_8_LO8)  => X = Field(V, 0, 8)
    /\ Applied(R_AVR_8_HI8)  => X = Field(V, 8, 8)
    /\ Applied(R_AVR_8_HLO8) => X = Field(V, 16, 8)
    /\ Applied(R_AVR_16)     => X = Field(V, 0, 16)
    /\ Applied(R_AVR_16_PM)  => X = Field(V, 1, 16)

(* C7: 13-bit branch displacement.  R_AVR_13_PCREL writes                  *)
(* (W & 0xf000) | (((V - 2) >> 1) & 0xfff); delta 10 applied onto 0x9401   *)
(* yields 0x9004.                                                          *)
C7_Branch13 ==
    Applied(R_AVR_13_PCREL) =>
        /\ X = Field(W, 12, 4) * 4096 + Field(V - 2, 1, 12)
        /\ (V = 10 /\ W = 37889) => X = 36868

\* The example of the claim: delta 10 onto 0x9401.
C7_Witness == Applied(R_AVR_13_PCREL) /\ V = 10 /\ W = 37889 /\ X = 36868

(* C8: mask-then-OR merge.  For R_AVR_6, R_AVR_6_ADIW, R_AVR_LDS_STS_16,   *)
(* R_AVR_PORT6, R_AVR_PORT5 and the first word of R_AVR_CALL, every bit    *)
(* outside the type's target positions is unchanged and every bit inside   *)
(* them is the bit obtained by applying the same type and value to the     *)
(* word with the target positions cleared.                                 *)
TargetBits(T) ==
    CASE T = R_AVR_6          -> {0, 1, 2, 10, 11, 13}
      [] T = R_AVR_6_ADIW     -> {0, 1, 2, 3, 6, 7}
      [] T = R_AVR_LDS_STS_16 -> {0, 1, 2, 3, 8, 9, 10}
      [] T = R_AVR_PORT6      -> {0, 1, 2, 3, 9, 10}
      [] T = R_AVR_PORT5      -> {3, 4, 5, 6, 7}
      [] T = R_AVR_CALL       -> {0, 4, 5, 6, 7, 8}

MergeTypes ==
    { R_AVR_6, R_AVR_6_ADIW, R_AVR_LDS_STS_16, R_AVR_PORT6, R_AVR_PORT5,
      R_AVR_CALL }

RECURSIVE ClearBits(_, _, _)
ClearBits(x, S, i) ==
    IF i > 15 THEN 0
    ELSE (IF i \in S THEN 0 ELSE Bit(x, i) * (2 ^ i)) + ClearBits(x, S, i + 1)

C8_MaskThenOr ==
    (call.op = "relocateOne" /\ call.Type \in MergeTypes) =>
        LET T  == call.Type
            W0 == ClearBits(W, TargetBits(T), 0)
            R  == relocateOne(Bytes(W0, 0), T, V).Loc
            X0 == R[1] + 256 * R[2]
        IN  /\ \A i \in (0 .. 15) \ TargetBits(T) : Bit(X, i) = Bit(W, i)
            /\ \A i \in TargetBits(T) : Bit(X, i) = Bit(X0, i)

(* C9 as stated: R_AVR_LO8_LDI with V = 0x3F7A applied to W = 0xE0A0       *)
(* leaves 0xE07A.                                                          *)
C9_Original ==
    (Applied(R_AVR_LO8_LDI) /\ V = 16250 /\ W = 57504) => X = 57466

(* C9, amended: R_AVR_LO8_LDI with V = 0x3F7A applied to W = 0xE0A0        *)
(* leaves 0xE7AA: nibble 0xA in bits 0-3, nibble 0x7 in bits 8-11, bits    *)
(* 4-7 and 12-15 of W kept.                                                *)
C9_LdiExample ==
    (Applied(R_AVR_LO8_LDI) /\ V = 16250 /\ W = 57504) => X = 59306

\* The example call has been made.
C9_Witness == Applied(R_AVR_LO8_LDI) /\ V = 16250 /\ W = 57504 /\ X # W

(* C10 as stated: R_AVR_7_PCREL applies branchAdjust only and writes       *)
(* (W & 0xfc07) | (((V - 2) & 0x7f) << 3).                                 *)
C10_Original ==
    Applied(R_AVR_7_PCREL) =>
        X = Field(W, 10, 6) * 1024 + Field(V - 2, 0, 7) * 8 + Field(W, 0, 3)

(* C10, amended: R_AVR_7_PCREL applies branchAdjust and then an arithmetic *)
(* shift right by one, and writes                                          *)
(* (W & 0xfc07) | ((((V - 2) >> 1) & 0x7f) << 3); bits 0-2 and 10-15 of W  *)
(* are unchanged.                                                          *)
C10_Branch7 ==
    Applied(R_AVR_7_PCREL) =>
        X = Field(W, 10, 6) * 1024 + Field(V - 2, 1, 7) * 8 + Field(W, 0, 3)

\* Delta 10 onto 0xFFFF: the window holds (10 - 2) >> 1 = 4.
C10_Witness == Applied(R_AVR_7_PCREL) /\ V = 10 /\ W = 65535 /\ X = 64551

====
